---------------------------- MODULE Spec2Model ----------------------------
(***************************************************************************)
(* A model of typer-invoke: the info extractor, tree builder and help      *)
(* renderer of typer_docs.py, the pyproject.toml reader of pyproject.py    *)
(* and invoke.py, and the plugin aggregator described in the design.       *)
(*                                                                         *)
(* Strings are sequences of one-character strings.  An Optional[str] is a  *)
(* record [some, str]; None is [some |-> FALSE, str |-> <<>>].             *)
(***************************************************************************)
EXTENDS Integers, Sequences, FiniteSets, TLC

VARIABLES
    descriptor,   \* SpecInfo: the CommandInfo / TyperInfo handed to _extract_info
    extracted,    \* SpecInfo: <<>> before the call, <<_Info>> after it
    text,         \* SpecClean: the help string handed to clean_text
    cleaned,      \* SpecClean: the results of the successive applications of clean_text
    app,          \* Spec: the Typer objects: own info, registered commands and groups
    nodes,        \* Spec: the _Node objects created so far (a node's id is its index)
    stack,        \* Spec: the active calls of extract_typer_info, innermost last
    result,       \* Spec: the node returned by the outermost call (0 before it returns)
    rendered,     \* Spec: <<>> or <<[node, level, blocks]>>, a call of build_typer_help
    raised,       \* Spec: <<>> or <<exception>>, what leaves the outermost call
    identifiers,  \* SpecAgg: the identifiers handed to the aggregator
    resolution,   \* SpecAgg: what resolving each identifier yields
    position,     \* SpecAgg: how many identifiers have been processed
    subcommands,  \* SpecAgg: the root dispatcher's subcommands, in grafting order
    diagnostics,  \* SpecAgg: the lines written to the error stream
    returned,     \* SpecAgg: whether the root dispatcher has been returned
    files,        \* SpecCfg: for the cwd and each ancestor, its pyproject.toml
    pathArg,      \* SpecCfg: the pyproject_path argument
    revision,     \* SpecCfg: which module's read_invoke_config is called
    outcome       \* SpecCfg: <<>> before the call, <<[kind, value]>> after it

infoVars == <<descriptor, extracted>>
cleanVars == <<text, cleaned>>
treeVars == <<app, nodes, stack, result, rendered, raised>>
aggVars == <<identifiers, resolution, position, subcommands, diagnostics, returned>>
cfgVars == <<files, pathArg, revision, outcome>>
vars == <<infoVars, cleanVars, treeVars, aggVars, cfgVars>>

InfoIdle == descriptor = <<>> /\ extracted = <<>>
CleanIdle == text = <<>> /\ cleaned = <<>>
TreeIdle ==
    /\ app = <<>> /\ nodes = <<>> /\ stack = <<>> /\ result = 0
    /\ rendered = <<>> /\ raised = <<>>
AggIdle ==
    /\ identifiers = <<>> /\ resolution = <<>> /\ position = 0
    /\ subcommands = <<>> /\ diagnostics = <<>> /\ returned = FALSE
CfgIdle == files = <<>> /\ pathArg = 0 /\ revision = "" /\ outcome = <<>>

---------------------------------------------------------------------------
(* Bounds *)

MaxShortLen == 2
MaxHelpLen == 3
MaxDocLen == 2
MaxNameLen == 2
MaxTextLen == 5
NumTypers == 3    \* Typer objects of an application
MaxCmds == 2      \* commands registered on one Typer object
MaxSubs == 2      \* subgroups registered on one Typer object
MaxItems == 5     \* registrations of an application, commands and subgroups
MaxLevel == 1     \* the level handed to build_typer_help
MaxLoopItems == 2 \* registrations of an application whose subgroups may form a cycle
RecursionLimit == 4  \* nested calls the interpreter allows (sys.getrecursionlimit)
MaxIds == 3       \* identifiers handed to the aggregator
MaxDirs == 2      \* directories from the working directory upwards

---------------------------------------------------------------------------
(* Strings *)

RECURSIVE SeqsUpTo(_, _)
SeqsUpTo(S, n) ==
    IF n = 0 THEN {<<>>}
    ELSE LET shorter == SeqsUpTo(S, n - 1)
         IN  shorter \cup {Append(s, c) : s \in {x \in shorter : Len(x) = n - 1}, c \in S}

None == [some |-> FALSE, str |-> <<>>]
Some(s) == [some |-> TRUE, str |-> s]
OptStrings(S, n) == {None} \cup {Some(s) : s \in SeqsUpTo(S, n)}

\* Python's truth value of an Optional[str]: None and '' are false.
Truthy(o) == o.some /\ o.str # <<>>

Whitespace == {" ", "\n"}

RECURSIVE LStrip(_)
LStrip(s) ==
    IF s # <<>> /\ Head(s) \in Whitespace THEN LStrip(Tail(s)) ELSE s

RECURSIVE RStrip(_)
RStrip(s) ==
    IF s # <<>> /\ s[Len(s)] \in Whitespace THEN RStrip(SubSeq(s, 1, Len(s) - 1)) ELSE s

\* str.strip()
Strip(s) == RStrip(LStrip(s))

\* str.splitlines(): the lines without their line ends, no empty last line.
RECURSIVE SplitLines(_)
SplitLines(s) ==
    IF s = <<>> THEN <<>>
    ELSE LET breaks == {i \in 1..Len(s) : s[i] = "\n"}
         IN  IF breaks = {} THEN <<s>>
             ELSE LET i == CHOOSE b \in breaks : \A c \in breaks : b <= c
                  IN  <<SubSeq(s, 1, i - 1)>> \o SplitLines(SubSeq(s, i + 1, Len(s)))

\* lines[0] if lines else ''
FirstLine(s) == LET lines == SplitLines(s) IN IF lines # <<>> THEN lines[1] ELSE <<>>

\* str.replace('_', '-')
Hyphenate(s) == [i \in 1..Len(s) |-> IF s[i] = "_" THEN "-" ELSE s[i]]

\* str.ljust(width): pads with spaces on the right, never truncates.
Ljust(s, width) ==
    IF Len(s) >= width THEN s ELSE s \o [i \in 1..(width - Len(s)) |-> " "]

---------------------------------------------------------------------------
(* typer_docs.py: _extract_info *)

NoCallback == [some |-> FALSE, name |-> <<>>, doc |-> None]
Callback(name, doc) == [some |-> TRUE, name |-> name, doc |-> doc]

\* A CommandInfo or TyperInfo; typer_instance is 0 (None) except for a
\* registered subgroup.
Descriptor(name, short_help, help, callback, hidden, typer_instance) ==
    [name |-> name, short_help |-> short_help, help |-> help,
     callback |-> callback, hidden |-> hidden, typer_instance |-> typer_instance]

\* A variant that consults the long help before the short help.
ExtractHelpPrefersLong(info) ==
    IF Truthy(info.help) THEN FirstLine(Strip(info.help.str))
    ELSE IF Truthy(info.short_help) THEN Strip(info.short_help.str)
    ELSE IF info.callback.some /\ Truthy(info.callback.doc)
        THEN FirstLine(Strip(info.callback.doc.str))
    ELSE <<>>

\* Lines 32-42: the first source that is truthy as declared decides.
ExtractHelp(info) ==
    IF Truthy(info.short_help) THEN Strip(info.short_help.str)
    ELSE IF Truthy(info.help) THEN FirstLine(Strip(info.help.str))
    ELSE IF info.callback.some /\ Truthy(info.callback.doc)
        THEN FirstLine(Strip(info.callback.doc.str))
    ELSE <<>>

\* A variant that also rewrites a declared name.
ExtractNameHyphenatesDeclared(info) ==
    IF Truthy(info.name) THEN Hyphenate(info.name.str)
    ELSE IF info.callback.some THEN Hyphenate(info.callback.name)
    ELSE <<>>

\* Lines 44-50.
ExtractName(info) ==
    IF Truthy(info.name) THEN info.name.str
    ELSE IF info.callback.some THEN Hyphenate(info.callback.name)
    ELSE <<>>

ExtractInfo(info) == [name |-> ExtractName(info), help |-> ExtractHelp(info)]

---------------------------------------------------------------------------
(* SpecInfo: _extract_info applied to one descriptor *)

HelpChars == {"a", " ", "\n"}
NameChars == {"a", "_"}

\* Descriptors that vary in their three help sources.
HelpDescriptors ==
    {Descriptor(Some(<<"n">>), sh, h, cb, FALSE, 0) :
        sh \in OptStrings(HelpChars, MaxShortLen),
        h \in OptStrings(HelpChars, MaxHelpLen),
        cb \in {NoCallback} \cup
               {Callback(<<"f">>, d) : d \in OptStrings(HelpChars, MaxDocLen)}}

\* Descriptors that vary in their two name sources.
NameDescriptors ==
    {Descriptor(n, None, None, cb, FALSE, 0) :
        n \in OptStrings(NameChars, MaxNameLen),
        cb \in {NoCallback} \cup
               {Callback(f, None) : f \in SeqsUpTo(NameChars, MaxNameLen) \ {<<>>}}}

InitInfo ==
    /\ descriptor \in HelpDescriptors \cup NameDescriptors
    /\ extracted = <<>>
    /\ CleanIdle /\ TreeIdle /\ AggIdle /\ CfgIdle

CallExtractInfo ==
    /\ descriptor # <<>>
    /\ extracted = <<>>
    /\ extracted' = <<ExtractInfo(descriptor)>>
    /\ UNCHANGED <<descriptor, cleanVars, treeVars, aggVars, cfgVars>>

NextInfo == CallExtractInfo

SpecInfo == InitInfo /\ [][NextInfo]_vars

---------------------------------------------------------------------------
(* typer_docs.py: clean_text, and SpecClean: clean_text applied twice *)

\* The backtick character (a string of the module cannot hold the character
\* itself, so it is written as a token).
Backtick == "BT"

\* A variant that drops the pair instead of keeping one backtick.
RECURSIVE CleanTextDropsPairs(_)
CleanTextDropsPairs(s) ==
    IF Len(s) < 2 THEN s
    ELSE IF s[1] = Backtick /\ s[2] = Backtick
        THEN CleanTextDropsPairs(SubSeq(s, 3, Len(s)))
    ELSE <<s[1]>> \o CleanTextDropsPairs(Tail(s))

\* str.replace of two backticks by one: a single scan from the left over
\* non-overlapping pairs.
RECURSIVE Replace2(_)
Replace2(s) ==
    IF Len(s) < 2 THEN s
    ELSE IF s[1] = Backtick /\ s[2] = Backtick
        THEN <<Backtick>> \o Replace2(SubSeq(s, 3, Len(s)))
    ELSE <<s[1]>> \o Replace2(Tail(s))

CleanText(s) == Replace2(s)

TextChars == {Backtick, "w"}

InitClean ==
    /\ text \in SeqsUpTo(TextChars, MaxTextLen)
    /\ cleaned = <<>>
    /\ InfoIdle /\ TreeIdle /\ AggIdle /\ CfgIdle

\* The sanitization of a help string before it is emitted.
CallCleanText ==
    /\ cleaned = <<>>
    /\ cleaned' = <<CleanText(text)>>
    /\ UNCHANGED <<text, infoVars, treeVars, aggVars, cfgVars>>

\* Re-sanitizing text that was sanitized once.
CallCleanTextAgain ==
    /\ Len(cleaned) = 1
    /\ cleaned' = Append(cleaned, CleanText(cleaned[1]))
    /\ UNCHANGED <<text, infoVars, treeVars, aggVars, cfgVars>>

NextClean == CallCleanText \/ CallCleanTextAgain

SpecClean == InitClean /\ [][NextClean]_vars

---------------------------------------------------------------------------
(* The applications handed to the tree builder *)

Digits == <<"0", "1", "2", "3", "4", "5", "6", "7", "8", "9">>
Digit(i) == Digits[i + 1]

\* The j-th command registered on Typer object t: no declared name, a
\* callback c_<t><j>, and its help in the callback's documentation (odd j)
\* or in a short help with double backticks (even j).
Command(t, j, hidden) ==
    IF j % 2 = 1
    THEN Descriptor(None, None, None,
                    Callback(<<"c", "_", Digit(t), Digit(j)>>, Some(<<"d", "\n", "e">>)),
                    hidden, 0)
    ELSE Descriptor(None, Some(<<Backtick, Backtick, "s", Backtick, Backtick>>), None,
                    Callback(<<"c", "_", Digit(t), Digit(j)>>, None),
                    hidden, 0)

\* The j-th subgroup registered on Typer object t, add_typer(target,
\* name='g<t><j>', ...): with a help of its own (odd j) or without (even j).
Subgroup(t, j, target, hidden) ==
    Descriptor(Some(<<"g", Digit(t), Digit(j)>>), None,
               IF j % 2 = 1 THEN Some(<<" ", "h", "\n", "i">>) ELSE None,
               NoCallback, hidden, target)

\* Typer(name='t<t>', help=...): the object's own info, with a help (even t)
\* or without (odd t).
OwnInfo(t) ==
    Descriptor(Some(<<"t", Digit(t)>>), None,
               IF t % 2 = 0 THEN Some(<<Backtick, Backtick, "o">>) ELSE None,
               NoCallback, FALSE, 0)

\* What varies from one application to the next: for each Typer object the
\* hidden flags of its commands and, for its subgroups, the Typer object
\* added and the hidden flag.  Subgroups are Typer objects created before
\* the one they are added to is complete, so the relation is acyclic: the
\* object added has a larger index.
Shapes(t) ==
    {[commands |-> c, groups |-> g] :
        c \in UNION {[1..n -> BOOLEAN] : n \in 0..MaxCmds},
        g \in UNION {[1..n -> ((t + 1)..NumTypers) \X BOOLEAN] : n \in 0..MaxSubs}}

Registrations(shape) == Len(shape.commands) + Len(shape.groups)

Targets(shape) == {shape.groups[j][1] : j \in 1..Len(shape.groups)}

\* The applications of Typer objects t..NumTypers with at most budget
\* registrations, as a sequence of shapes; added is the set of objects that
\* the objects before t add as subgroups.  Only the root and the objects
\* added somewhere belong to the application: any other one is left empty.
RECURSIVE AppsFrom(_, _, _)
AppsFrom(t, budget, added) ==
    IF t > NumTypers THEN {<<>>}
    ELSE LET shapes ==
                IF t = 1 \/ t \in added
                THEN {x \in Shapes(t) : Registrations(x) <= budget}
                ELSE {[commands |-> <<>>, groups |-> <<>>]}
             Headed(o) ==
                {<<o>> \o rest :
                    rest \in AppsFrom(t + 1, budget - Registrations(o),
                                      added \cup Targets(o))}
         IN  UNION {Headed(o) : o \in shapes}

\* The Typer object t of the application: typer_obj.info,
\* typer_obj.registered_commands and typer_obj.registered_groups.
TyperInfoOf(t) == OwnInfo(t)
RegisteredCommands(t) ==
    [j \in 1..Len(app[t].commands) |-> Command(t, j, app[t].commands[j])]
RegisteredGroups(t) ==
    [j \in 1..Len(app[t].groups) |->
        Subgroup(t, j, app[t].groups[j][1], app[t].groups[j][2])]

---------------------------------------------------------------------------
(* typer_docs.py: _Node, _extract_command_info, _extract_group_info,
   extract_typer_info *)

\* _Node(parent=parent, info=info): parent 0 is None.
NewNode(parent, info) ==
    [parent |-> parent, info |-> info, commands_infos |-> <<>>, children |-> <<>>]

ExtractCommandInfo(command) == ExtractInfo(command)

\* A variant that takes the help of the nested Typer object whenever it has
\* one.
ExtractGroupInfoPrefersContainer(group) ==
    LET group_info == ExtractInfo(group)
        container == ExtractInfo(TyperInfoOf(group.typer_instance))
    IN  IF group.typer_instance # 0 /\ container.help # <<>>
        THEN [group_info EXCEPT !.help = container.help]
        ELSE group_info

\* Lines 59-64.
ExtractGroupInfo(group) ==
    LET group_info == ExtractInfo(group)
    IN  IF group_info.help = <<>> /\ group.typer_instance # 0
        THEN [group_info EXCEPT
                !.help = ExtractInfo(TyperInfoOf(group.typer_instance)).help]
        ELSE group_info

\* `info or _extract_info(typer_obj.info)`: info is <<>> (None) or <<_Info>>;
\* an _Info object is always true.
NodeInfo(typer_obj, info) ==
    IF info # <<>> THEN info[1] ELSE ExtractInfo(TyperInfoOf(typer_obj))

\* A variant that keeps every command.
KeepCommandAlways(command) == TRUE

\* Line 73.
KeepCommand(command) == ~command.hidden

\* Line 76.
KeepGroup(group) == ~group.hidden

\* A variant that hands the caller's own parent to the recursive call.
ChildParentOfCaller(caller) == nodes[caller.node].parent

\* Line 80: the recursive call's parent argument is the caller's node.
ChildParent(caller) == caller.node

Frame(typer_obj, node) == [typer_obj |-> typer_obj, node |-> node, pc |-> "commands", i |-> 1]

Top == stack[Len(stack)]

InitTree ==
    /\ app \in AppsFrom(1, MaxItems, {})
    /\ nodes = <<>>
    /\ stack = <<>>
    /\ result = 0
    /\ rendered = <<>>
    /\ raised = <<>>
    /\ InfoIdle /\ CleanIdle /\ AggIdle /\ CfgIdle

\* extract_typer_info(app): line 70 of the outermost call.
CallExtractTyperInfo ==
    /\ app # <<>>
    /\ nodes = <<>> /\ stack = <<>> /\ result = 0
    /\ nodes' = <<NewNode(0, NodeInfo(1, <<>>))>>
    /\ stack' = <<Frame(1, 1)>>
    /\ UNCHANGED <<app, result, rendered, raised, infoVars, cleanVars,
                 aggVars, cfgVars>>

\* Lines 72-74: one iteration of the loop over the registered commands.
VisitCommand ==
    /\ stack # <<>>
    /\ Top.pc = "commands"
    /\ Top.i <= Len(RegisteredCommands(Top.typer_obj))
    /\ LET command == RegisteredCommands(Top.typer_obj)[Top.i]
       IN  nodes' =
             IF KeepCommand(command)
             THEN [nodes EXCEPT ![Top.node].commands_infos =
                                    Append(@, ExtractCommandInfo(command))]
             ELSE nodes
    /\ stack' = [stack EXCEPT ![Len(stack)].i = @ + 1]
    /\ UNCHANGED <<app, result, rendered, raised, infoVars, cleanVars,
                 aggVars, cfgVars>>

\* Line 75: the loop over the commands is exhausted, the one over the
\* groups starts.
CommandsDone ==
    /\ stack # <<>>
    /\ Top.pc = "commands"
    /\ Top.i > Len(RegisteredCommands(Top.typer_obj))
    /\ stack' = [stack EXCEPT ![Len(stack)].pc = "groups", ![Len(stack)].i = 1]
    /\ UNCHANGED <<app, nodes, result, rendered, raised, infoVars, cleanVars,
                 aggVars, cfgVars>>

\* Line 76: a hidden group is passed over.
SkipGroup ==
    /\ stack # <<>>
    /\ Top.pc = "groups"
    /\ Top.i <= Len(RegisteredGroups(Top.typer_obj))
    /\ ~KeepGroup(RegisteredGroups(Top.typer_obj)[Top.i])
    /\ stack' = [stack EXCEPT ![Len(stack)].i = @ + 1]
    /\ UNCHANGED <<app, nodes, result, rendered, raised, infoVars, cleanVars,
                 aggVars, cfgVars>>

\* A variant that links the new node into its parent as it is created.
EnterGroupLinksFirst ==
    /\ stack # <<>>
    /\ Top.pc = "groups"
    /\ Top.i <= Len(RegisteredGroups(Top.typer_obj))
    /\ LET group == RegisteredGroups(Top.typer_obj)[Top.i]
           new_node == Len(nodes) + 1
       IN  /\ KeepGroup(group)
           /\ nodes' = Append([nodes EXCEPT ![Top.node].children = Append(@, new_node)],
                              NewNode(ChildParent(Top),
                                      NodeInfo(group.typer_instance,
                                               <<ExtractGroupInfo(group)>>)))
           /\ stack' = Append(stack, Frame(group.typer_instance, new_node))
    /\ UNCHANGED <<app, result, rendered, raised, infoVars, cleanVars,
                 aggVars, cfgVars>>

\* Lines 76-80 and line 70 of the recursive call: the group's info is
\* extracted at this level and the call for the nested Typer object starts.
EnterGroup ==
    /\ stack # <<>>
    /\ Top.pc = "groups"
    /\ Top.i <= Len(RegisteredGroups(Top.typer_obj))
    /\ LET group == RegisteredGroups(Top.typer_obj)[Top.i]
           new_node == Len(nodes) + 1
       IN  /\ KeepGroup(group)
           /\ nodes' = Append(nodes,
                              NewNode(ChildParent(Top),
                                      NodeInfo(group.typer_instance,
                                               <<ExtractGroupInfo(group)>>)))
           /\ stack' = Append(stack, Frame(group.typer_instance, new_node))
    /\ UNCHANGED <<app, result, rendered, raised, infoVars, cleanVars,
                 aggVars, cfgVars>>

\* Line 83, and line 81 in the caller: the call returns its node; a
\* recursive call's node is appended to the caller's children, the outermost
\* call's node is the result.
ReturnNode ==
    /\ stack # <<>>
    /\ Top.pc = "groups"
    /\ Top.i > Len(RegisteredGroups(Top.typer_obj))
    /\ IF Len(stack) = 1
       THEN /\ result' = Top.node
            /\ stack' = <<>>
            /\ nodes' = nodes
       ELSE LET caller == stack[Len(stack) - 1]
            IN  /\ nodes' = [nodes EXCEPT ![caller.node].children = Append(@, Top.node)]
                /\ stack' = [SubSeq(stack, 1, Len(stack) - 1)
                                EXCEPT ![Len(stack) - 1].i = @ + 1]
                /\ result' = result
    /\ UNCHANGED <<app, rendered, raised, infoVars, cleanVars,
                 aggVars, cfgVars>>

---------------------------------------------------------------------------
(* typer_docs.py: _padding_level, build_typer_help *)

ColumnWidth == 20

\* Lines 86-87.
PaddingLevel(level) == level * 2

\* Padding(text, (0, 0, 0, padding)) around a styled name and a help text.
Block(name, help, padding, style_name, style_info) ==
    [name |-> name, help |-> help, padding |-> padding,
     style_name |-> style_name, style_info |-> style_info]

RECURSIVE Concat(_)
Concat(seqs) == IF seqs = <<>> THEN <<>> ELSE Head(seqs) \o Concat(Tail(seqs))

\* A variant that emits the children before the commands.
RECURSIVE BuildTyperHelpChildrenFirst(_, _)
BuildTyperHelpChildrenFirst(node, level) ==
    LET n == nodes[node]
        node_padding ==
            Block(Ljust(n.info.name, ColumnWidth), CleanText(n.info.help),
                  PaddingLevel(level),
                  IF level = 0 THEN "bold yellow" ELSE "bold cyan",
                  IF level = 0 THEN "bold yellow" ELSE "not bold cyan")
        command_paddings ==
            [k \in 1..Len(n.commands_infos) |->
                Block(Ljust(n.commands_infos[k].name, ColumnWidth),
                      CleanText(n.commands_infos[k].help),
                      PaddingLevel(level + 1), "b", "")]
        children_paddings ==
            [k \in 1..Len(n.children) |->
                BuildTyperHelpChildrenFirst(n.children[k], level + 1)]
    IN  <<node_padding>> \o Concat(children_paddings) \o command_paddings

\* Lines 94-121.  A Group renders its renderables one after the other, so
\* the nested Groups of the children are kept as their blocks in order.
RECURSIVE BuildTyperHelp(_, _)
BuildTyperHelp(node, level) ==
    LET n == nodes[node]
        node_padding ==
            Block(Ljust(n.info.name, ColumnWidth), CleanText(n.info.help),
                  PaddingLevel(level),
                  IF level = 0 THEN "bold yellow" ELSE "bold cyan",
                  IF level = 0 THEN "bold yellow" ELSE "not bold cyan")
        command_paddings ==
            [k \in 1..Len(n.commands_infos) |->
                Block(Ljust(n.commands_infos[k].name, ColumnWidth),
                      CleanText(n.commands_infos[k].help),
                      PaddingLevel(level + 1), "b", "")]
        children_paddings ==
            [k \in 1..Len(n.children) |-> BuildTyperHelp(n.children[k], level + 1)]
    IN  <<node_padding>> \o command_paddings \o Concat(children_paddings)

\* build_typer_help(node, level) on a node of the returned tree.
CallBuildTyperHelp ==
    /\ result # 0
    /\ rendered = <<>>
    /\ \E node \in 1..Len(nodes), level \in 0..MaxLevel :
          rendered' = <<[node |-> node, level |-> level,
                         blocks |-> BuildTyperHelp(node, level)]>>
    /\ UNCHANGED <<app, nodes, stack, result, raised, infoVars, cleanVars,
                 aggVars, cfgVars>>

Next ==
    \/ CallExtractTyperInfo
    \/ VisitCommand
    \/ CommandsDone
    \/ SkipGroup
    \/ EnterGroup
    \/ ReturnNode
    \/ CallBuildTyperHelp

Spec == InitTree /\ [][Next]_vars

---------------------------------------------------------------------------
(* typer_docs.py: extract_typer_info on applications whose subgroups may
   form a cycle *)

\* add_typer takes any Typer object, the one it is called on and the ones
\* that already hold it included: the object added may have any index.
\* The shapes of one Typer object with at most budget registrations.
LoopShapes(budget) ==
    UNION {{[commands |-> c, groups |-> g] :
                c \in [1..n -> BOOLEAN],
                g \in UNION {[1..m -> (1..NumTypers) \X BOOLEAN] :
                                m \in {k \in 0..MaxSubs : k <= budget - n}}} :
           n \in {k \in 0..MaxCmds : k <= budget}}

\* The applications of Typer objects t..NumTypers with at most budget
\* registrations.
RECURSIVE LoopAppsFrom(_, _)
LoopAppsFrom(t, budget) ==
    IF t > NumTypers THEN {<<>>}
    ELSE LET Headed(o) ==
                {<<o>> \o rest :
                    rest \in LoopAppsFrom(t + 1, budget - Registrations(o))}
         IN  UNION {Headed(o) : o \in LoopShapes(budget)}

\* The Typer objects of application a reached from those of S through
\* add_typer, hidden or not.
RECURSIVE AddedFrom(_, _, _)
AddedFrom(a, S, fuel) ==
    IF fuel = 0 THEN S
    ELSE AddedFrom(a, S \cup UNION {Targets(a[t]) : t \in S}, fuel - 1)

\* Only the root and the objects added somewhere below it belong to the
\* application: any other one is left empty.
InitLoop ==
    /\ app \in {a \in LoopAppsFrom(1, MaxLoopItems) :
                   \A t \in 1..NumTypers :
                       Registrations(a[t]) > 0 => t \in AddedFrom(a, {1}, NumTypers)}
    /\ nodes = <<>>
    /\ stack = <<>>
    /\ result = 0
    /\ rendered = <<>>
    /\ raised = <<>>
    /\ InfoIdle /\ CleanIdle /\ AggIdle /\ CfgIdle

\* Line 80 while the interpreter still allows a nested call.  The function
\* itself has no depth test: the only limit is the interpreter's, counted
\* here in calls of extract_typer_info.
EnterGroupWithinLimit ==
    /\ Len(stack) < RecursionLimit
    /\ EnterGroup

\* Line 80 at the interpreter's limit: the call raises RecursionError, which
\* no frame of extract_typer_info catches, so it leaves the outermost call
\* and no node is returned.
RaiseRecursionError ==
    /\ stack # <<>>
    /\ Top.pc = "groups"
    /\ Top.i <= Len(RegisteredGroups(Top.typer_obj))
    /\ KeepGroup(RegisteredGroups(Top.typer_obj)[Top.i])
    /\ Len(stack) = RecursionLimit
    /\ stack' = <<>>
    /\ raised' = <<"RecursionError">>
    /\ UNCHANGED <<app, nodes, result, rendered, infoVars, cleanVars,
                   aggVars, cfgVars>>

NextLoop ==
    \/ CallExtractTyperInfo
    \/ VisitCommand
    \/ CommandsDone
    \/ SkipGroup
    \/ EnterGroupWithinLimit
    \/ RaiseRecursionError
    \/ ReturnNode

SpecLoop == InitLoop /\ [][NextLoop]_vars

\* The interpreter keeps running the call it has started.
FairSpecLoop == SpecLoop /\ WF_vars(NextLoop)

---------------------------------------------------------------------------
(* The plugin resolver and the command aggregator (design sections 4.1, 4.2) *)

\* An identifier is its dot-separated segments.
IdentifierPool ==
    {<<"pkg", "alpha">>, <<"pkg", "beta", "bad">>, <<"pkg", "gamma">>,
     <<"other", "alpha">>}

Outcomes == {"ok", "ImportFailure", "NotACommandGroup"}

\* resolve(identifier): the handle of the group or the reason of the failure.
Resolve(identifier) == resolution[identifier]

\* The subcommand name: the final dot-separated segment.
SubcommandName(identifier) == identifier[Len(identifier)]

\* Grafting under a name that is taken replaces the earlier group.
Graft(subs, name, handle) ==
    IF \E k \in 1..Len(subs) : subs[k].name = name
    THEN [k \in 1..Len(subs) |->
            IF subs[k].name = name THEN [name |-> name, group |-> handle] ELSE subs[k]]
    ELSE Append(subs, [name |-> name, group |-> handle])

InitAgg ==
    /\ identifiers \in SeqsUpTo(IdentifierPool, MaxIds)
    /\ resolution \in [IdentifierPool -> Outcomes]
    /\ position = 0
    /\ subcommands = <<>>
    /\ diagnostics = <<>>
    /\ returned = FALSE
    /\ InfoIdle /\ CleanIdle /\ TreeIdle /\ CfgIdle

\* A variant in which a failure ends the run.
AggregateStepAbortsOnFailure ==
    /\ ~returned
    /\ position < Len(identifiers)
    /\ LET identifier == identifiers[position + 1]
       IN  IF Resolve(identifier) = "ok"
           THEN /\ subcommands' =
                      Graft(subcommands, SubcommandName(identifier), identifier)
                /\ position' = position + 1
                /\ UNCHANGED diagnostics
           ELSE /\ diagnostics' =
                      Append(diagnostics,
                             [identifier |-> identifier, reason |-> Resolve(identifier)])
                /\ position' = Len(identifiers)
                /\ UNCHANGED subcommands
    /\ UNCHANGED <<identifiers, resolution, returned,
                   infoVars, cleanVars, treeVars, cfgVars>>

\* The next identifier, in input order: resolved and grafted under its final
\* segment, or reported with one diagnostic line and skipped.
AggregateStep ==
    /\ ~returned
    /\ position < Len(identifiers)
    /\ LET identifier == identifiers[position + 1]
       IN  IF Resolve(identifier) = "ok"
           THEN /\ subcommands' =
                      Graft(subcommands, SubcommandName(identifier), identifier)
                /\ UNCHANGED diagnostics
           ELSE /\ diagnostics' =
                      Append(diagnostics,
                             [identifier |-> identifier, reason |-> Resolve(identifier)])
                /\ UNCHANGED subcommands
    /\ position' = position + 1
    /\ UNCHANGED <<identifiers, resolution, returned,
                   infoVars, cleanVars, treeVars, cfgVars>>

\* All identifiers processed: the root dispatcher is returned.
ReturnRootDispatcher ==
    /\ ~returned
    /\ position = Len(identifiers)
    /\ returned' = TRUE
    /\ UNCHANGED <<identifiers, resolution, position, subcommands, diagnostics,
                   infoVars, cleanVars, treeVars, cfgVars>>

NextAgg == AggregateStep \/ ReturnRootDispatcher

SpecAgg == InitAgg /\ [][NextAgg]_vars

---------------------------------------------------------------------------
(* pyproject.py and invoke.py: find_pyproject_toml, read_invoke_config *)

\* What a directory holds as pyproject.toml: nothing, a file that is not
\* TOML, or a TOML document without a tool key, with a tool key that is not
\* a table, with a tool table without invoke, or with a tool.invoke table.
FileKinds == {"absent", "malformed", "no_tool", "tool_not_table", "no_invoke", "invoke"}

Raise(exception) == [kind |-> "raise", value |-> exception]
Return(value) == [kind |-> "return", value |-> value]

\* The directories from the working directory (1) upwards that hold a
\* pyproject.toml.
Holding == {d \in 1..Len(files) : files[d] # "absent"}

\* find_pyproject_toml(): the nearest pyproject.toml; without one
\* pyproject.py raises FileNotFoundError and invoke.py returns None (0).
FindPyprojectToml ==
    IF Holding # {} THEN Return(CHOOSE d \in Holding : \A e \in Holding : d <= e)
    ELSE IF revision = "pyproject" THEN Raise("FileNotFoundError")
    ELSE Return(0)

\* The try block: open, tomllib.load and the two lookups; any exception
\* leaves as a plain Exception.
ReadFile(path) ==
    LET opened ==
            IF files[path] = "absent" THEN Raise("FileNotFoundError")
            ELSE IF files[path] = "malformed" THEN Raise("TOMLDecodeError")
            ELSE IF files[path] = "tool_not_table" THEN Raise("AttributeError")
            ELSE IF files[path] = "invoke" THEN Return("config")
            ELSE Return("empty")
    IN  IF opened.kind = "raise" THEN Raise("Exception") ELSE opened

\* read_invoke_config(pyproject_path).
ReadInvokeConfig ==
    LET found == IF pathArg = 0 THEN FindPyprojectToml ELSE Return(pathArg)
    IN  IF found.kind = "raise" THEN found
        ELSE IF found.value = 0 THEN Raise("FileNotFoundError")
        ELSE ReadFile(found.value)

InitCfg ==
    /\ files \in [1..MaxDirs -> FileKinds]
    /\ pathArg \in 0..MaxDirs
    /\ revision \in {"pyproject", "invoke"}
    /\ outcome = <<>>
    /\ InfoIdle /\ CleanIdle /\ TreeIdle /\ AggIdle

CallReadInvokeConfig ==
    /\ revision # ""
    /\ outcome = <<>>
    /\ outcome' = <<ReadInvokeConfig>>
    /\ UNCHANGED <<files, pathArg, revision, infoVars, cleanVars, treeVars, aggVars>>

NextCfg == CallReadInvokeConfig

SpecCfg == InitCfg /\ [][NextCfg]_vars

---------------------------------------------------------------------------
(* Claims about _extract_info (SpecInfo) *)

IsBlank(s) == \A i \in 1..Len(s) : s[i] \in Whitespace

\* The first line of s once trimmed, stated on positions: from the first
\* non-blank character to the character before the first line break after
\* it, or to the last non-blank character when no line break lies between.
TrimmedFirstLine(s) ==
    IF IsBlank(s) THEN <<>>
    ELSE LET solid == {i \in 1..Len(s) : s[i] \notin Whitespace}
             first == CHOOSE i \in solid : \A j \in solid : i <= j
             last == CHOOSE i \in solid : \A j \in solid : j <= i
             breaks == {i \in first..last : s[i] = "\n"}
             stop == IF breaks = {} THEN last
                     ELSE (CHOOSE i \in breaks : \A j \in breaks : i <= j) - 1
         IN  SubSeq(s, first, stop)

\* s trimmed at both ends, stated on positions.
Trimmed(s) ==
    IF IsBlank(s) THEN <<>>
    ELSE LET solid == {i \in 1..Len(s) : s[i] \notin Whitespace}
             first == CHOOSE i \in solid : \A j \in solid : i <= j
             last == CHOOSE i \in solid : \A j \in solid : j <= i
         IN  SubSeq(s, first, last)

DocOf(d) == IF d.callback.some THEN d.callback.doc ELSE None

\* C2 as stated: the help is the first of the trimmed short help, the
\* trimmed first line of the long help and the trimmed first line of the
\* callback's documentation that is not empty after trimming, so a short
\* or long help of blanks only falls through to the next source.
C2_HelpFirstNonEmptyAfterTrim ==
    extracted # <<>> =>
        LET d == descriptor
            short == Trimmed(d.short_help.str)
            long == TrimmedFirstLine(d.help.str)
            doc == TrimmedFirstLine(DocOf(d).str)
        IN  extracted[1].help =
                IF short # <<>> THEN short
                ELSE IF long # <<>> THEN long
                ELSE doc

\* C2 amended: the source is the first of short help, long help and
\* callback documentation that is a non-empty string as declared (before
\* trimming); the help is that short help trimmed, or the first line of
\* that long help or documentation once trimmed; it is empty when no source
\* is non-empty and also when the chosen source holds blanks only.
C2_HelpFirstDeclaredSource ==
    extracted # <<>> =>
        LET d == descriptor
            h == extracted[1].help
        IN  /\ Truthy(d.short_help) => h = Trimmed(d.short_help.str)
            /\ ~Truthy(d.short_help) /\ Truthy(d.help) =>
                    h = TrimmedFirstLine(d.help.str)
            /\ ~Truthy(d.short_help) /\ ~Truthy(d.help) /\ Truthy(DocOf(d)) =>
                    h = TrimmedFirstLine(DocOf(d).str)
            /\ ~Truthy(d.short_help) /\ ~Truthy(d.help) /\ ~Truthy(DocOf(d)) =>
                    h = <<>>

\* A short help of blanks only, above a long help with text, has been
\* extracted to the empty help.
C2_Witness ==
    /\ extracted # <<>>
    /\ Truthy(descriptor.short_help) /\ IsBlank(descriptor.short_help.str)
    /\ descriptor.help = Some(<<"a", "\n", "a">>)
    /\ extracted[1].help = <<>>

\* C6: the name is the declared name verbatim when one is declared,
\* otherwise the callback's identifier with every underscore turned into a
\* hyphen, otherwise empty.  (A declared name is a non-empty one: Python
\* tests the name's truth value.)
C6_NameFallback ==
    extracted # <<>> =>
        LET d == descriptor
            n == extracted[1].name
            f == d.callback.name
        IN  /\ Truthy(d.name) => n = d.name.str
            /\ ~Truthy(d.name) /\ d.callback.some =>
                    /\ Len(n) = Len(f)
                    /\ \A i \in 1..Len(f) :
                            n[i] = (IF f[i] = "_" THEN "-" ELSE f[i])
            /\ ~Truthy(d.name) /\ ~d.callback.some => n = <<>>

\* A name derived from a callback whose identifier holds an underscore.
C6_Witness ==
    /\ extracted # <<>>
    /\ descriptor.name = None
    /\ descriptor.callback.some
    /\ descriptor.callback.name = <<"a", "_">>
    /\ extracted[1].name = <<"a", "-">>

---------------------------------------------------------------------------
(* Claims about clean_text (SpecClean) *)

HasDouble(s) == \E i \in 1..(Len(s) - 1) : s[i] = Backtick /\ s[i + 1] = Backtick

\* The lengths of the maximal runs of backticks of s are all at most n.
RunsAtMost(s, n) ==
    \A i \in 1..(Len(s) - n) : \E j \in i..(i + n) : s[j] # Backtick

\* The run-length encoding of s: its maximal runs of equal characters.
RECURSIVE Runs(_)
Runs(s) ==
    IF s = <<>> THEN <<>>
    ELSE LET rest == Runs(Tail(s))
         IN  IF rest # <<>> /\ rest[1].ch = Head(s)
             THEN <<[ch |-> Head(s), n |-> rest[1].n + 1]>> \o Tail(rest)
             ELSE <<[ch |-> Head(s), n |-> 1]>> \o rest

\* Every run of n backticks halved, rounding up; the rest kept.
HalvedRuns(rs) ==
    [i \in 1..Len(rs) |->
        IF rs[i].ch = Backtick THEN [ch |-> Backtick, n |-> (rs[i].n + 1) \div 2] ELSE rs[i]]

\* C4 as stated: one application leaves no double backtick, a second one
\* changes nothing, and text without a double backtick is unchanged, for
\* every text (runs of three or more backticks included).
C4_CleanTextIdempotent ==
    /\ Len(cleaned) >= 1 => ~HasDouble(cleaned[1])
    /\ Len(cleaned) >= 1 /\ ~HasDouble(text) => cleaned[1] = text
    /\ Len(cleaned) >= 2 => cleaned[2] = cleaned[1]

\* C4 amended: clean_text halves every run of backticks, rounding up, and
\* keeps everything else; so text without a double backtick is unchanged,
\* and for text whose runs of backticks are at most two long one
\* application leaves no double backtick and a second one changes nothing,
\* while a run of three or more leaves a double backtick behind.
C4_CleanTextHalvesRuns ==
    /\ Len(cleaned) >= 1 =>
            /\ Runs(cleaned[1]) = HalvedRuns(Runs(text))
            /\ ~HasDouble(text) => cleaned[1] = text
            /\ RunsAtMost(text, 2) <=> ~HasDouble(cleaned[1])
    /\ Len(cleaned) >= 2 =>
            (RunsAtMost(text, 2) <=> cleaned[2] = cleaned[1])

\* The text w between double backticks has become w between single ones,
\* and sanitizing it again has left it alone.
C4_Witness ==
    /\ text = <<Backtick, Backtick, "w", Backtick, Backtick>>
    /\ cleaned = << <<Backtick, "w", Backtick>>, <<Backtick, "w", Backtick>> >>

---------------------------------------------------------------------------
(* Claims about extract_typer_info and build_typer_help (Spec) *)

Ids == 1..Len(nodes)
NotHidden(d) == ~d.hidden
ShownCommands(t) == SelectSeq(RegisteredCommands(t), NotHidden)
ShownGroups(t) == SelectSeq(RegisteredGroups(t), NotHidden)
Occurrences(seq, x) == Cardinality({i \in DOMAIN seq : seq[i] = x})
Min(a, b) == IF a <= b THEN a ELSE b

\* The pre-order of the subtree of node n: the node, its commands in list
\* order one level deeper, then the pre-order of each child in list order,
\* one level deeper.
RECURSIVE PreOrder(_, _)
PreOrder(n, depth) ==
    <<[name |-> nodes[n].info.name, depth |-> depth]>>
    \o [k \in 1..Len(nodes[n].commands_infos) |->
            [name |-> nodes[n].commands_infos[k].name, depth |-> depth + 1]]
    \o Concat([k \in 1..Len(nodes[n].children) |->
                  PreOrder(nodes[n].children[k], depth + 1)])

\* C1: build_typer_help(node, level) emits the blocks of the node's subtree
\* in pre-order, each indented by twice its depth, the node being at depth
\* level.
C1_PreOrderIndented ==
    rendered # <<>> =>
        LET r == rendered[1]
            items == PreOrder(r.node, r.level)
        IN  /\ Len(r.blocks) = Len(items)
            /\ \A i \in 1..Min(Len(r.blocks), Len(items)) :
                  /\ r.blocks[i].name = Ljust(items[i].name, ColumnWidth)
                  /\ r.blocks[i].padding = 2 * items[i].depth

\* root(cmdA) -> child1(cmdB) -> grandchild(cmdC) rendered from the root at
\* level 0: root, cmdA, child1, cmdB, grandchild, cmdC at 0, 2, 2, 4, 4, 6.
C1_Witness ==
    /\ rendered # <<>>
    /\ rendered[1].node = result /\ rendered[1].level = 0
    /\ app = <<[commands |-> <<FALSE>>, groups |-> << <<2, FALSE>> >>],
               [commands |-> <<FALSE>>, groups |-> << <<3, FALSE>> >>],
               [commands |-> <<FALSE>>, groups |-> <<>>]>>
    /\ [i \in 1..Len(rendered[1].blocks) |-> rendered[1].blocks[i].padding]
          = <<0, 2, 2, 4, 4, 6>>
    /\ [i \in 1..Len(rendered[1].blocks) |-> Strip(rendered[1].blocks[i].name)]
          = << <<"t", "1">>, <<"c", "-", "1", "1">>, <<"g", "1", "1">>,
               <<"c", "-", "2", "1">>, <<"g", "2", "1">>, <<"c", "-", "3", "1">> >>

\* Node n holds exactly the commands of Typer object t that are not hidden,
\* in registration order, and one child per subgroup that is not hidden, in
\* registration order, each holding the same of its own Typer object.
RECURSIVE TreeMatches(_, _)
TreeMatches(n, t) ==
    LET cmds == ShownCommands(t)
        subs == ShownGroups(t)
        node == nodes[n]
    IN  /\ Len(node.commands_infos) = Len(cmds)
        /\ \A k \in 1..Min(Len(node.commands_infos), Len(cmds)) :
              node.commands_infos[k] = ExtractInfo(cmds[k])
        /\ Len(node.children) = Len(subs)
        /\ \A k \in 1..Min(Len(node.children), Len(subs)) :
              /\ nodes[node.children[k]].info.name = ExtractInfo(subs[k]).name
              /\ TreeMatches(node.children[k], subs[k].typer_instance)

\* The Typer objects reached from the root through subgroups not hidden.
ShownTargets(t) ==
    {RegisteredGroups(t)[j].typer_instance :
        j \in {i \in 1..Len(RegisteredGroups(t)) : NotHidden(RegisteredGroups(t)[i])}}

RECURSIVE ShownFrom(_, _)
ShownFrom(S, fuel) ==
    IF fuel = 0 THEN S
    ELSE ShownFrom(S \cup UNION {ShownTargets(t) : t \in S}, fuel - 1)

ShownTypers == ShownFrom({1}, NumTypers)

\* The names of what must not show: every hidden command and subgroup, and
\* every command and subgroup of a Typer object that is reached through
\* hidden subgroups only.
HiddenNamesOf(t) ==
    {ExtractInfo(RegisteredCommands(t)[j]).name :
        j \in {i \in 1..Len(app[t].commands) :
                  app[t].commands[i] \/ t \notin ShownTypers}}
    \cup
    {ExtractInfo(RegisteredGroups(t)[j]).name :
        j \in {i \in 1..Len(app[t].groups) :
                  app[t].groups[i][2] \/ t \notin ShownTypers}}

HiddenNames == UNION {HiddenNamesOf(t) : t \in 1..NumTypers}

BlockNames == {Strip(rendered[1].blocks[i].name) : i \in 1..Len(rendered[1].blocks)}

\* C3: the returned tree holds, group by group, exactly the commands and
\* subgroups that are not hidden, once each and in registration order, and
\* nothing for a hidden one or for what only a hidden subgroup leads to; and
\* no block of build_typer_help carries the name of any of those.
C3_HiddenNeverShown ==
    result # 0 =>
        /\ TreeMatches(result, 1)
        /\ \A n \in Ids :
              /\ nodes[n].info.name \notin HiddenNames
              /\ \A k \in 1..Len(nodes[n].commands_infos) :
                    nodes[n].commands_infos[k].name \notin HiddenNames
        /\ rendered # <<>> => BlockNames \cap HiddenNames = {}

\* A tree rendered from the root of an application with a hidden command
\* before a shown one, a hidden subgroup before a shown one, and a command
\* that only the hidden subgroup leads to.
C3_Witness ==
    /\ rendered # <<>>
    /\ rendered[1].node = result
    /\ app[1].commands = <<TRUE, FALSE>>
    /\ app[1].groups = << <<2, TRUE>>, <<3, FALSE>> >>
    /\ app[2].commands = <<FALSE>>
    /\ Len(nodes[result].commands_infos) = 1
    /\ Len(nodes[result].children) = 1

\* C7: a child node's info is the info extracted from the subgroup's
\* registration: its name always, its help when that is not empty, and
\* otherwise the help extracted from the nested Typer object's own info.
RECURSIVE GroupInfosMatch(_, _)
GroupInfosMatch(n, t) ==
    LET subs == ShownGroups(t)
        node == nodes[n]
    IN  \A k \in 1..Min(Len(node.children), Len(subs)) :
            LET own == ExtractInfo(subs[k])
                nested == ExtractInfo(TyperInfoOf(subs[k].typer_instance))
                got == nodes[node.children[k]].info
            IN  /\ got.name = own.name
                /\ own.help # <<>> => got.help = own.help
                /\ own.help = <<>> => got.help = nested.help
                /\ GroupInfosMatch(node.children[k], subs[k].typer_instance)

C7_GroupInfoFromRegistration == result # 0 => GroupInfosMatch(result, 1)

\* Typer object 2, which has a help of its own, added twice to the root:
\* first with a help at the registration, which is kept, then without one,
\* where the help of the object itself is borrowed; the names are those of
\* the registrations.
C7_Witness ==
    /\ result # 0
    /\ app[1].groups = << <<2, FALSE>>, <<2, FALSE>> >>
    /\ Len(nodes[result].children) = 2
    /\ nodes[nodes[result].children[1]].info =
          [name |-> <<"g", "1", "1">>, help |-> <<"h">>]
    /\ nodes[nodes[result].children[2]].info =
          [name |-> <<"g", "1", "2">>, help |-> <<Backtick, Backtick, "o">>]

RECURSIVE ReachesRoot(_, _)
ReachesRoot(n, fuel) ==
    \/ n = result
    \/ /\ fuel > 0
       /\ n \in Ids
       /\ nodes[n].parent \in Ids
       /\ ReachesRoot(nodes[n].parent, fuel - 1)

\* C9: in the returned tree the root has no parent, and every other node
\* occurs exactly once in the children of the node its parent field names,
\* in no other node's children, and reaches the root through parent fields.
C9_StrictTree ==
    result # 0 =>
        /\ nodes[result].parent = 0
        /\ \A q \in Ids : Occurrences(nodes[q].children, result) = 0
        /\ \A n \in Ids \ {result} :
              /\ nodes[n].parent \in Ids
              /\ \A q \in Ids :
                    Occurrences(nodes[q].children, n) =
                        (IF q = nodes[n].parent THEN 1 ELSE 0)
              /\ ReachesRoot(n, Len(nodes))

\* Typer object 3 added to the root and to Typer object 2: two nodes built
\* from the same object, with the same commands, under different parents.
C9_Witness ==
    /\ result # 0
    /\ app[1].groups = << <<2, FALSE>>, <<3, FALSE>> >>
    /\ app[2].groups = << <<3, FALSE>> >>
    /\ app[3].commands = <<FALSE>>
    /\ Len(nodes) = 4
    /\ nodes[3].parent = 2 /\ nodes[4].parent = 1
    /\ nodes[3].commands_infos = nodes[4].commands_infos
    /\ nodes[3].commands_infos # <<>>

\* The nodes that occur in some node's children.
Linked == UNION {{nodes[p].children[k] : k \in 1..Len(nodes[p].children)} : p \in Ids}

\* The nodes whose call of extract_typer_info has not returned yet.
UnderConstruction == {stack[k].node : k \in 1..Len(stack)}

LinkedComplete == Linked \cap UnderConstruction = {}

LinkedFrozen ==
    \A n \in Linked :
        /\ n \in DOMAIN nodes'
        /\ nodes'[n].commands_infos = nodes[n].commands_infos
        /\ nodes'[n].children = nodes[n].children

\* C10: a node is in a children list only once its call has returned, that
\* is with its commands and its whole subtree in place, and from then on
\* its commands_infos and children never change.
C10_LinkedOnlyWhenComplete ==
    LinkedComplete /\ [][LinkedComplete' /\ LinkedFrozen]_vars

\* The build is still running above a linked node that has a command and a
\* child of its own.
C10_Witness ==
    /\ stack # <<>>
    /\ \E n \in Linked :
          /\ nodes[n].commands_infos # <<>>
          /\ nodes[n].children # <<>>

---------------------------------------------------------------------------
(* Claims about the aggregator (SpecAgg) *)

Resolvable(identifier) == resolution[identifier] = "ok"

\* The positions of the input whose identifier resolves and ends in name.
GraftsOf(name) ==
    {k \in 1..Len(identifiers) :
        Resolvable(identifiers[k]) /\ identifiers[k][Len(identifiers[k])] = name}

FailedPositions == {k \in 1..Len(identifiers) : ~Resolvable(identifiers[k])}

\* C5: when the root dispatcher is returned every identifier has been
\* processed; its subcommands are exactly the final segments of the
\* identifiers that resolve, each holding the last such identifier of the
\* input, whatever fails around them; and the diagnostics are one line per
\* failing identifier, in input order, naming it and the reason.
C5_FailuresNeverContaminate ==
    returned =>
        /\ position = Len(identifiers)
        /\ {subcommands[k].name : k \in 1..Len(subcommands)}
              = {identifiers[k][Len(identifiers[k])] :
                    k \in {i \in 1..Len(identifiers) : Resolvable(identifiers[i])}}
        /\ \A k \in 1..Len(subcommands) :
              /\ GraftsOf(subcommands[k].name) # {}
              /\ subcommands[k].group =
                    identifiers[CHOOSE i \in GraftsOf(subcommands[k].name) :
                                    \A j \in GraftsOf(subcommands[k].name) : j <= i]
              /\ \A j \in 1..Len(subcommands) :
                    subcommands[j].name = subcommands[k].name => j = k
        /\ Len(diagnostics) = Cardinality(FailedPositions)
        /\ \A k \in 1..Len(diagnostics) :
              \E i \in FailedPositions :
                  /\ Cardinality({j \in FailedPositions : j <= i}) = k
                  /\ diagnostics[k] = [identifier |-> identifiers[i],
                                       reason |-> resolution[identifiers[i]]]

\* pkg.alpha, pkg.beta.bad, pkg.gamma with pkg.beta.bad failing to load:
\* alpha and gamma grafted, one diagnostic.
C5_Witness ==
    /\ returned
    /\ identifiers = << <<"pkg", "alpha">>, <<"pkg", "beta", "bad">>, <<"pkg", "gamma">> >>
    /\ resolution[<<"pkg", "beta", "bad">>] = "ImportFailure"
    /\ subcommands = <<[name |-> "alpha", group |-> <<"pkg", "alpha">>],
                       [name |-> "gamma", group |-> <<"pkg", "gamma">>]>>
    /\ Len(diagnostics) = 1
    /\ diagnostics[1].identifier = <<"pkg", "beta", "bad">>

---------------------------------------------------------------------------
(* Claims about read_invoke_config (SpecCfg) *)

\* The file the call is about: the one named, or the nearest one (0: none).
TargetFile ==
    IF pathArg # 0 THEN pathArg
    ELSE IF Holding = {} THEN 0
    ELSE CHOOSE d \in Holding : \A e \in Holding : d <= e

\* C8: as read_invoke_config's docstring states, a pyproject.toml that is
\* not found, by the search or at the path given, raises FileNotFoundError,
\* a malformed one raises the TOML decode error, and a readable one without
\* a tool.invoke table returns an empty dict.
C8_ErrorsAsDocumented ==
    outcome # <<>> =>
        /\ (TargetFile = 0 \/ files[TargetFile] = "absent") =>
              outcome[1] = Raise("FileNotFoundError")
        /\ (TargetFile # 0 /\ files[TargetFile] = "malformed") =>
              outcome[1] = Raise("TOMLDecodeError")
        /\ (TargetFile # 0 /\ files[TargetFile] \in {"no_tool", "no_invoke"}) =>
              outcome[1] = Return("empty")

---------------------------------------------------------------------------
(* Claims about the tree builder on possibly cyclic applications (SpecLoop) *)

\* A Typer object shown in the tree is reached from itself through subgroups
\* not hidden.
ShownCycle == \E t \in ShownTypers : t \in ShownFrom(ShownTargets(t), NumTypers)

\* The outermost call of extract_typer_info has been made and is over.
Ended == nodes # <<>> /\ stack = <<>>

LoopEndsByReturnOrRecursionError ==
    /\ Len(stack) <= RecursionLimit
    /\ raised \in {<<>>, <<"RecursionError">>}
    /\ ~ShownCycle => raised = <<>>
    /\ Ended =>
          IF ShownCycle
          THEN raised = <<"RecursionError">> /\ result = 0
          ELSE raised = <<>> /\ result # 0 /\ TreeMatches(result, 1)

\* Under FairSpecLoop every call ends.
LoopCallEnds == <>Ended

\* The root adds itself under a name: the call has ended with RecursionError.
LoopSelfAdded ==
    /\ Ended
    /\ app[1].groups = << <<1, FALSE>> >>
    /\ raised = <<"RecursionError">>
    /\ Len(nodes) = RecursionLimit

\* The root adds itself as a hidden subgroup only: the call has returned.
LoopHiddenReturns ==
    /\ Ended
    /\ app[1].groups = << <<1, TRUE>> >>
    /\ result = 1

=============================================================================
